---- MODULE Spec2Model ----
(***************************************************************************)
(* Model of src/lambdas/auth0-ddb-gsheet.py: get_logs in bounded-range     *)
(* mode (day-by-day partition queries, pagination by LastEvaluatedKey,     *)
(* retry with exponential backoff on throttling, wall-clock timeout).      *)
(*                                                                         *)
(* Calendar days are integers (day 0, day 1, ...).  A stored item is a     *)
(* record [day, id, type]; an item whose 'type' key is absent has no       *)
(* "type" field.  The backend (table.query) answers each request with the  *)
(* page, with the rate-limit signal or with another error, chosen          *)
(* nondeterministically.  One action is one request together with the      *)
(* handling of its answer.                                                 *)
(*                                                                         *)
(* count_users and get_unique_addresses are operators folding the loop     *)
(* body over the list of logs; a user_name is a sequence of tokens, "@"    *)
(* being one of them.  lambda_handler composes the retrieval, the          *)
(* aggregation and the report sink.  A calendar month has MaxDay days.     *)
(***************************************************************************)
EXTENDS Integers, Sequences, FiniteSets, TLC

\* ------------------------------------------------------------- bounds
\* start_date and end_date range over the days 0 .. MaxDay; the store holds these days.
MaxDay == 2
\* Seconds one request takes against a fast / a slow backend.
FastLatency == 1
SlowLatency == 400

\* The lists of logs given to the aggregation alone have at most MaxRecs logs.
MaxRecs == 3
\* Policies attached directly to the user of the IAM migration.
MaxPolicies == 2
\* Answers that are neither yes nor no the operator gives during the migration.
MaxPrompts == 1

\* ------------------------------------------------- program constants
\* None, as a date or a date string
NoDate == -1
TIMEOUT_SECONDS == 900
\* for i in range(10)
MaxAttempts == 10

\* Event type codes kept by the retriever.
InterestTypes == {"f", "s", "scp", "fcpr"}

VARIABLES
    start_date,   \* argument of get_logs (a day)
    end_date,     \* argument of get_logs (a day)
    store,        \* the table: day -> sequence of pages, a page is a sequence of items
    latency,      \* seconds one request takes in this run
    now,          \* time.time()
    start_time,   \* local of get_logs
    pc,           \* "start", "first" (line 146), "next" (line 155), "returned", "raised"
    n,            \* index of daterange: single_date = start_date + n
    i,            \* attempt index of the retry loop
    lek,          \* response['LastEvaluatedKey'] (0: absent)
    logs,         \* local list of get_logs; the return value when pc = "returned"
    exc,          \* exception that left get_logs, "none" if none
    excDay,       \* day named in the TimeoutError message (-1: none)
    last,         \* history: the last request issued [day, tok, outcome]
    qcount,       \* history: requests issued per day and page
    okcount,      \* history: requests answered with a page, per day and page
    throttles,    \* history: rate-limit signals received per day and page
    slept,        \* history: seconds slept in backoff per day
    scans,        \* history: table.scan requests issued
    recs,         \* aggregation on its own: the list of logs given
    watched,      \* watched_domains
    cu,           \* what count_users returned (NotCalled before)
    ua,           \* what get_unique_addresses returned (NotCalled before)
    hpc,          \* lambda_handler: "direct" (not running), "entry", "get_logs",
                  \* "send", "returned", "raised"
    ev_start,     \* event.get('start_date', None)
    ev_end,       \* event.get('end_date', None)
    today,        \* the day of datetime.now()
    unique_only,  \* unique_addresses_only
    sheet,        \* sheet is not None
    sent,         \* what send_to_google_sheets was called with (NotCalled before)
    response,     \* what lambda_handler returned (statusCode 0: nothing)
    username,           \* user_data["username"]
    attached_policies,  \* user_data["attached_policies"]
    created_groups,     \* dict: policy name -> group name
    ipc,                \* process_user_policies_with_groups: "idle" (not running),
                        \* "loop" (line 168), "attach" (184), "add" (186),
                        \* "confirm" (188), "detach" (191), "done"
    idx,                \* index of the for loop over attached_policies
    prompts,            \* history: answers given that were neither yes nor no
    group_policies,     \* IAM: pairs <<group, policy arn>> attached
    group_members,      \* IAM: pairs <<group, user>>
    user_policies,      \* IAM: policy arns attached to the user directly
    calls               \* history: what the loop did, [op, idx, arg, outcome]

retrVars == <<start_date, end_date, store, latency, now, start_time, pc, n, i, lek,
              logs, exc, excDay, last, qcount, okcount, throttles, slept, scans>>
aggVars == <<recs, watched, cu, ua>>
handlerVars == <<hpc, ev_start, ev_end, today, unique_only, sheet, sent, response>>

iamVars == <<username, attached_policies, created_groups, ipc, idx, prompts,
             group_policies, group_members, user_policies, calls>>

vars == <<retrVars, aggVars, handlerVars, iamVars>>

Days == 0 .. MaxDay

\* ------------------------------------------------------------ the table
\* The users of the stored items: item k of a day is an event of UserOf(k).
UserOf(k) == IF k % 2 = 1 THEN <<"a", "@", "x.com">> ELSE <<"b", "@", "y.com">>
Item(d, k, t) == [day |-> d, id |-> k, user_name |-> UserOf(k), type |-> t]
ItemNoType(d, k) == [day |-> d, id |-> k, user_name |-> UserOf(k)]

\* Contents a day partition can have: one page; two pages; two pages the
\* second of which holds an item without a type.
DayKinds(d) ==
    << << <<Item(d, 1, "s"), Item(d, 2, "seacft")>> >>,
       << <<Item(d, 1, "f"), Item(d, 2, "slo")>>,
          <<Item(d, 3, "scp"), Item(d, 4, "fp"), Item(d, 5, "fcpr")>> >>,
       << <<Item(d, 1, "s")>>,
          <<Item(d, 2, "f"), ItemNoType(d, 3)>> >> >>

NumKinds == Len(DayKinds(0))

Stores == { [d \in Days |-> DayKinds(d)[((d + rot) % NumKinds) + 1]] : rot \in 0 .. (NumKinds - 1) }

NumPages(d) == Len(store[d])

\* table.query(KeyConditionExpression=Key('day').eq(d) [, ExclusiveStartKey=tok])
\* answering normally: the page and the key of the next page, if any.
PageOf(tok) == IF tok = 0 THEN 1 ELSE tok
QueryPartition(d, tok) ==
    [Items |-> store[d][PageOf(tok)],
     LastEvaluatedKey |-> IF PageOf(tok) < NumPages(d) THEN PageOf(tok) + 1 ELSE 0]

Outcomes == {"ok", "throttle", "fail"}

\* ------------------------------------------------------------ daterange
\* range(int((end_date - start_date).days)): empty when the difference is <= 0
\* (changed: the end date is included)
DateRangeLen_Inclusive(s, e) == IF e - s >= 0 THEN e - s + 1 ELSE 0
DateRangeLen(s, e) == IF e - s > 0 THEN e - s ELSE 0
DateRange(s, e) == [k \in 1 .. DateRangeLen(s, e) |-> s + (k - 1)]

SingleDate == start_date + n

\* ------------------------------------------------- filtering of a page
HasType(item) == "type" \in DOMAIN item
OfInterest(item) == item.type \in InterestTypes

\* Index of the first item whose type lookup raises KeyError, 0 if none.
FirstKeyError(items) ==
    IF \E k \in 1 .. Len(items) : ~HasType(items[k])
    THEN CHOOSE k \in 1 .. Len(items) :
            /\ ~HasType(items[k])
            /\ \A j \in 1 .. (k - 1) : HasType(items[j])
    ELSE 0

\* for item in response['Items']: if item['data']['type'] in [...]: logs.append(item)
\* (the items appended; up to the item that raises, if one does)
Kept(items) ==
    IF FirstKeyError(items) = 0
    THEN SelectSeq(items, OfInterest)
    ELSE SelectSeq(SubSeq(items, 1, FirstKeyError(items) - 1), OfInterest)

\* (changed: the items of the first page are not collected)
KeptFirstPage_Dropped(items) == <<>>
KeptFirstPage(items) == Kept(items)
\* (changed: the items of a continuation page are appended without the type test)
KeptNextPage_Unfiltered(items) == items
KeptNextPage(items) == Kept(items)

\* ------------------------------------------------------- time and retry
\* (changed: a delay that grows by two seconds instead of doubling)
Backoff_Linear(k) == 2 * k
Backoff(k) == 2 ^ k
\* (changed: the seconds slept in backoff are left out of the elapsed time)
RECURSIVE SleptUpTo(_)
SleptUpTo(d) == IF d < 0 THEN 0 ELSE slept[d] + SleptUpTo(d - 1)
Elapsed_SleepsNotCounted(t) == t - start_time - SleptUpTo(MaxDay)
Elapsed(t) == t - start_time
TimedOut(t) == Elapsed(t) > TIMEOUT_SECONDS
\* (changed: one attempt too many)
MoreAttempts_OneMore(k) == k < MaxAttempts
MoreAttempts(k) == k + 1 < MaxAttempts

\* ------------------------------------------------------------- history
Issue(d, tok, o) ==
    /\ last' = [day |-> d, tok |-> tok, outcome |-> o]
    /\ qcount' = [qcount EXCEPT ![d][PageOf(tok)] = @ + 1]
    /\ okcount' = IF o = "ok" THEN [okcount EXCEPT ![d][PageOf(tok)] = @ + 1] ELSE okcount
    /\ throttles' = IF o = "throttle" THEN [throttles EXCEPT ![d][PageOf(tok)] = @ + 1]
                    ELSE throttles

\* ---------------------------------------------------------- user names
\* A user_name is a sequence of tokens: the token "@" is the character '@',
\* every other token is a run of characters without '@'.
\* '@' in user_email
HasAt(email) == \E k \in 1 .. Len(email) : email[k] = "@"
\* user_email.endswith('@')
EndsWithAt(email) == Len(email) > 0 /\ email[Len(email)] = "@"
Malformed(email) == ~HasAt(email) \/ EndsWithAt(email)
\* user_email.split('@')[-1]: what follows the last '@'
LastAt(email) ==
    IF HasAt(email)
    THEN CHOOSE k \in 1 .. Len(email) :
            /\ email[k] = "@"
            /\ \A j \in (k + 1) .. Len(email) : email[j] # "@"
    ELSE 0
DomainOf(email) == SubSeq(email, LastAt(email) + 1, Len(email))

EXCLUDED_DOMAINS == { <<"test.com">> }
\* (changed: no domain is excluded)
IsExcluded_Never(domain) == FALSE
IsExcluded(domain) == domain \in EXCLUDED_DOMAINS

\* ------------------------------------------------------------ dicts
\* A dict is a function on its keys.
EmptyDict == <<>>
\* d.get(key, default)
Get(d, key, default) == IF key \in DOMAIN d THEN d[key] ELSE default
\* d[key] = value
Put(d, key, value) == [k \in (DOMAIN d) \cup {key} |-> IF k = key THEN value ELSE d[k]]
\* (changed: the counter is set to 1 instead of incremented)
Inc_SetToOne(d, key) == Put(d, key, 1)
\* d[key] = d.get(key, 0) + 1
Inc(d, key) == Put(d, key, Get(d, key, 0) + 1)

\* ------------------------------------------------------- count_users
\* The locals of count_users before the loop.
InitAcc ==
    [unique_users |-> {},
     unique_users_by_domain |-> EmptyDict,
     users_by_domain |-> EmptyDict,
     successful_logins |-> 0,
     failed_logins |-> 0,
     password_changes |-> 0,
     successful_logins_by_domain |-> EmptyDict,
     failed_logins_by_domain |-> EmptyDict,
     password_changes_by_domain |-> EmptyDict,
     exc |-> "none"]

\* log['data']['user_name'], log['data']['type'] raise KeyError
LookupRaises(log) == ~("user_name" \in DOMAIN log) \/ ~("type" \in DOMAIN log)
\* (changed: the KeyError is not caught)
OnKeyError_Raised(acc) == [acc EXCEPT !.exc = "KeyError"]
\* except KeyError: continue
OnKeyError(acc) == acc

\* (changed: the set of the domain is replaced instead of extended)
AddUnique_DomainReset(acc, email, domain) ==
    [acc EXCEPT !.unique_users = @ \cup {email},
                !.unique_users_by_domain = Put(@, domain, {email})]
\* lines 239-242
AddUnique(acc, email, domain) ==
    [acc EXCEPT !.unique_users = @ \cup {email},
                !.unique_users_by_domain = Put(@, domain, Get(@, domain, {}) \cup {email})]

\* (changed: the count of an email is set to 1 instead of incremented)
AddWatched_Once(acc, email, domain, wd) ==
    IF domain \in wd
    THEN [acc EXCEPT !.users_by_domain =
                        Put(@, domain, Put(Get(@, domain, EmptyDict), email, 1))]
    ELSE acc
\* (changed: the emails dict of the domain is created anew for every log)
AddWatched_Reset(acc, email, domain, wd) ==
    IF domain \in wd
    THEN [acc EXCEPT !.users_by_domain = Put(@, domain, Inc(EmptyDict, email))]
    ELSE acc
\* lines 244-247; users_by_domain[domain] stands for users_by_domain[domain]['emails']
AddWatched(acc, email, domain, wd) ==
    IF domain \in wd
    THEN [acc EXCEPT !.users_by_domain = Put(@, domain, Inc(Get(@, domain, EmptyDict), email))]
    ELSE acc

\* (changed: a type without a branch is counted as a successful login)
CountType_ElseSuccess(acc, type, domain) ==
    CASE type = "f" ->
            [acc EXCEPT !.failed_logins = @ + 1,
                        !.failed_logins_by_domain = Inc(@, domain)]
      [] type \in {"scp", "fcpr"} ->
            [acc EXCEPT !.password_changes = @ + 1,
                        !.password_changes_by_domain = Inc(@, domain)]
      [] OTHER ->
            [acc EXCEPT !.successful_logins = @ + 1,
                        !.successful_logins_by_domain = Inc(@, domain)]
\* (changed: 'fcpr' has no branch)
CountType_NoFcpr(acc, type, domain) ==
    CASE type = "s" ->
            [acc EXCEPT !.successful_logins = @ + 1,
                        !.successful_logins_by_domain = Inc(@, domain)]
      [] type = "f" ->
            [acc EXCEPT !.failed_logins = @ + 1,
                        !.failed_logins_by_domain = Inc(@, domain)]
      [] type = "scp" ->
            [acc EXCEPT !.password_changes = @ + 1,
                        !.password_changes_by_domain = Inc(@, domain)]
      [] OTHER -> acc
\* lines 249-257
CountType(acc, type, domain) ==
    CASE type = "s" ->
            [acc EXCEPT !.successful_logins = @ + 1,
                        !.successful_logins_by_domain = Inc(@, domain)]
      [] type = "f" ->
            [acc EXCEPT !.failed_logins = @ + 1,
                        !.failed_logins_by_domain = Inc(@, domain)]
      [] type \in {"scp", "fcpr"} ->
            [acc EXCEPT !.password_changes = @ + 1,
                        !.password_changes_by_domain = Inc(@, domain)]
      [] OTHER -> acc

\* (changed: a log of a type without a branch is passed over)
CountLog_TypeFiltered(acc, log, wd) ==
    IF LookupRaises(log) THEN OnKeyError(acc)
    ELSE IF Malformed(log.user_name) THEN acc
    ELSE IF IsExcluded(DomainOf(log.user_name)) THEN acc
    ELSE IF log.type \notin {"s", "f", "scp", "fcpr"} THEN acc
    ELSE CountType(AddWatched(AddUnique(acc, log.user_name, DomainOf(log.user_name)),
                              log.user_name, DomainOf(log.user_name), wd),
                   log.type, DomainOf(log.user_name))
\* The loop body, lines 225-257.
CountLog(acc, log, wd) ==
    IF LookupRaises(log) THEN OnKeyError(acc)
    ELSE IF Malformed(log.user_name) THEN acc
    ELSE IF IsExcluded(DomainOf(log.user_name)) THEN acc
    ELSE CountType(AddWatched(AddUnique(acc, log.user_name, DomainOf(log.user_name)),
                              log.user_name, DomainOf(log.user_name), wd),
                   log.type, DomainOf(log.user_name))

\* for log in logs, from the k-th on; an exception ends the loop.
RECURSIVE CountLoop(_, _, _, _)
CountLoop(acc, ls, k, wd) ==
    IF k > Len(ls) \/ acc.exc # "none" THEN acc
    ELSE CountLoop(CountLog(acc, ls[k], wd), ls, k + 1, wd)

\* count_users(logs, watched_domains): the nine values returned (lines 259-264),
\* or the exception raised.
CountUsers(ls, wd) ==
    LET acc == CountLoop(InitAcc, ls, 1, wd)
    IN  IF acc.exc # "none" THEN [exc |-> acc.exc]
        ELSE [exc |-> "none",
              total_users |-> Cardinality(acc.unique_users),
              unique_users_by_domain |->
                  [d \in DOMAIN acc.unique_users_by_domain |->
                      Cardinality(acc.unique_users_by_domain[d])],
              successful_logins |-> acc.successful_logins,
              successful_logins_by_domain |-> acc.successful_logins_by_domain,
              failed_logins |-> acc.failed_logins,
              failed_logins_by_domain |-> acc.failed_logins_by_domain,
              password_changes |-> acc.password_changes,
              password_changes_by_domain |-> acc.password_changes_by_domain,
              users_by_domain |-> acc.users_by_domain]

\* ----------------------------------------------- get_unique_addresses
\* log['data']['user_name'] raises KeyError
UniqueLookupRaises(log) == ~("user_name" \in DOMAIN log)
\* The logs the loop body passes over: KeyError, or a malformed address.
UniqueSkips(log) == UniqueLookupRaises(log) \/ Malformed(log.user_name)

\* The loop body, lines 194-206.
UniqueLog(acc, log) ==
    IF UniqueSkips(log) THEN acc
    ELSE IF DomainOf(log.user_name) \notin EXCLUDED_DOMAINS
    THEN [acc EXCEPT !.addresses = @ \cup {log.user_name}]
    ELSE acc

RECURSIVE UniqueLoop(_, _, _)
UniqueLoop(acc, ls, k) ==
    IF k > Len(ls) \/ acc.exc # "none" THEN acc
    ELSE UniqueLoop(UniqueLog(acc, ls[k]), ls, k + 1)

\* get_unique_addresses(logs): the addresses of the list returned.
GetUniqueAddresses(ls) == UniqueLoop([exc |-> "none", addresses |-> {}], ls, 1)

\* A function not called yet has returned nothing.
NotCalled == [exc |-> "not called"]

\* --------------------------------------------------------------- Init
\* No aggregation is going on.
AggIdle ==
    /\ recs = <<>>
    /\ watched = {}
    /\ cu = NotCalled
    /\ ua = NotCalled

\* lambda_handler is not running: get_logs is called on its own.
HandlerIdle ==
    /\ hpc = "direct"
    /\ ev_start = NoDate
    /\ ev_end = NoDate
    /\ today = 0
    /\ unique_only = FALSE
    /\ sheet = FALSE
    /\ sent = NotCalled
    /\ response = [statusCode |-> 0]

\* The IAM migration is not running.
IamIdle ==
    /\ username = "none"
    /\ attached_policies = <<>>
    /\ created_groups = <<>>
    /\ ipc = "idle"
    /\ idx = 0
    /\ prompts = 0
    /\ group_policies = {}
    /\ group_members = {}
    /\ user_policies = {}
    /\ calls = <<>>

\* get_logs is not running.
RetrIdle ==
    /\ start_date = NoDate
    /\ end_date = NoDate
    /\ store = [d \in Days |-> DayKinds(d)[1]]
    /\ latency = FastLatency
    /\ now = 0
    /\ start_time = 0
    /\ pc = "idle"
    /\ n = 0
    /\ i = 0
    /\ lek = 0
    /\ logs = <<>>
    /\ exc = "none"
    /\ excDay = -1
    /\ last = [day |-> -1, tok |-> 0, outcome |-> "none"]
    /\ qcount = [d \in Days |-> [p \in 1 .. NumPages(d) |-> 0]]
    /\ okcount = [d \in Days |-> [p \in 1 .. NumPages(d) |-> 0]]
    /\ throttles = [d \in Days |-> [p \in 1 .. NumPages(d) |-> 0]]
    /\ slept = [d \in Days |-> 0]
    /\ scans = 0

Init ==
    /\ start_date \in 0 .. MaxDay
    /\ end_date \in 0 .. MaxDay
    /\ store \in Stores
    /\ latency \in {FastLatency, SlowLatency}
    /\ now = 0
    /\ start_time = 0
    /\ pc = "start"
    /\ n = 0
    /\ i = 0
    /\ lek = 0
    /\ logs = <<>>
    /\ exc = "none"
    /\ excDay = -1
    /\ last = [day |-> -1, tok |-> 0, outcome |-> "none"]
    /\ qcount = [d \in Days |-> [p \in 1 .. NumPages(d) |-> 0]]
    /\ okcount = [d \in Days |-> [p \in 1 .. NumPages(d) |-> 0]]
    /\ throttles = [d \in Days |-> [p \in 1 .. NumPages(d) |-> 0]]
    /\ slept = [d \in Days |-> 0]
    /\ scans = 0
    /\ AggIdle
    /\ HandlerIdle
    /\ IamIdle

\* ------------------------------------------------------------ actions
\* The for loop over daterange moves to the next date, or get_logs returns logs.
NextDate ==
    IF n + 1 < Len(DateRange(start_date, end_date))
    THEN /\ n' = n + 1
         /\ i' = 0
         /\ pc' = "first"
    ELSE /\ pc' = "returned"
         /\ UNCHANGED <<n, i>>

Raise(e, d) ==
    /\ pc' = "raised"
    /\ exc' = e
    /\ excDay' = d

\* except ClientError: ProvisionedThroughputExceededException -> sleep and go
\* round the retry loop (the loop body starts again at the first page of the
\* date); a loop that runs out of attempts falls through to the next date.
OnThrottled(t) ==
    /\ now' = t + Backoff(i)
    /\ slept' = [slept EXCEPT ![SingleDate] = @ + Backoff(i)]
    /\ IF MoreAttempts(i)
       THEN /\ i' = i + 1
            /\ pc' = "first"
            /\ UNCHANGED n
       ELSE NextDate
    /\ UNCHANGED <<logs, lek, exc, excDay>>

\* (changed: every ClientError is slept on and retried)
OnOtherError_Retried(t) ==
    /\ OnThrottled(t)
\* except ClientError: any other code -> raise
OnOtherError(t) ==
    /\ now' = t
    /\ Raise("ClientError", -1)
    /\ UNCHANGED <<logs, lek, n, i, slept>>

\* get_logs up to the first iteration of the date loop
Start ==
    /\ pc = "start"
    /\ start_date # NoDate
    /\ end_date # NoDate
    /\ start_time' = now
    /\ logs' = <<>>
    /\ IF Len(DateRange(start_date, end_date)) > 0
       THEN pc' = "first"
       ELSE pc' = "returned"
    /\ UNCHANGED <<start_date, end_date, store, latency, now, n, i, lek, exc, excDay,
                   last, qcount, okcount, throttles, slept, scans>>
    /\ UNCHANGED <<aggVars, handlerVars>>
    /\ UNCHANGED iamVars

\* The first-page request of an attempt (lines 146-151) and what follows it up
\* to the next request.
QueryFirst(o) ==
    /\ pc = "first"
    /\ Issue(SingleDate, 0, o)
    /\ LET resp == QueryPartition(SingleDate, 0)
           t == now + latency
       IN  CASE o = "ok" ->
                  /\ now' = t
                  /\ logs' = logs \o KeptFirstPage(resp.Items)
                  /\ IF FirstKeyError(resp.Items) # 0
                     THEN /\ Raise("KeyError", -1)
                          /\ UNCHANGED <<lek, n, i>>
                     ELSE IF resp.LastEvaluatedKey # 0
                     THEN /\ lek' = resp.LastEvaluatedKey
                          /\ pc' = "next"
                          /\ UNCHANGED <<n, i, exc, excDay>>
                     ELSE /\ NextDate
                          /\ UNCHANGED <<lek, exc, excDay>>
                  /\ UNCHANGED slept
             [] o = "throttle" -> OnThrottled(t)
             [] o = "fail" -> OnOtherError(t)
    /\ UNCHANGED <<start_date, end_date, store, latency, start_time, scans>>
    /\ UNCHANGED <<aggVars, handlerVars>>
    /\ UNCHANGED iamVars

\* A continuation request (lines 155-168) and what follows it up to the next
\* request.
QueryNext(o) ==
    /\ pc = "next"
    /\ Issue(SingleDate, lek, o)
    /\ LET resp == QueryPartition(SingleDate, lek)
           t == now + latency
       IN  CASE o = "ok" ->
                  /\ now' = t
                  /\ logs' = logs \o KeptNextPage(resp.Items)
                  /\ IF FirstKeyError(resp.Items) # 0
                     THEN /\ Raise("KeyError", -1)
                          /\ UNCHANGED <<lek, n, i>>
                     ELSE IF TimedOut(t)
                     THEN /\ Raise("TimeoutError", SingleDate)
                          /\ UNCHANGED <<lek, n, i>>
                     ELSE IF resp.LastEvaluatedKey # 0
                     THEN /\ lek' = resp.LastEvaluatedKey
                          /\ pc' = "next"
                          /\ UNCHANGED <<n, i, exc, excDay>>
                     ELSE /\ NextDate
                          /\ UNCHANGED <<lek, exc, excDay>>
                  /\ UNCHANGED slept
             [] o = "throttle" -> OnThrottled(t)
             [] o = "fail" -> OnOtherError(t)
    /\ UNCHANGED <<start_date, end_date, store, latency, start_time, scans>>
    /\ UNCHANGED <<aggVars, handlerVars>>
    /\ UNCHANGED iamVars

Next ==
    \/ Start
    \/ \E o \in Outcomes : QueryFirst(o)
    \/ \E o \in Outcomes : QueryNext(o)

Spec == Init /\ [][Next]_vars

\* The program runs on: a request that can be issued eventually is.
FairSpec == Spec /\ WF_vars(Next)

\* ---------------------------------------------- aggregation on its own
\* The logs the aggregation is tried on: well-formed addresses of two domains
\* (one with a second '@'), an excluded domain, addresses without '@' and
\* ending in '@', an unrecognized type, and logs lacking the type, the
\* user_name, or the whole data.
LogKinds ==
    { [user_name |-> <<"a", "@", "x.com">>, type |-> "s"],
      [user_name |-> <<"a", "@", "x.com">>, type |-> "scp"],
      [user_name |-> <<"b", "@", "y.com">>, type |-> "f"],
      [user_name |-> <<"c", "@", "y.com", "@", "x.com">>, type |-> "fcpr"],
      [user_name |-> <<"a", "@", "test.com">>, type |-> "s"],
      [user_name |-> <<"bob">>, type |-> "s"],
      [user_name |-> <<"a", "@">>, type |-> "f"],
      [user_name |-> <<"a", "@", "x.com">>, type |-> "seacft"],
      [user_name |-> <<"b", "@", "y.com">>],
      [type |-> "s"],
      [id |-> 0] }

LogLists == UNION { [1 .. k -> LogKinds] : k \in 0 .. MaxRecs }

WatchedChoices ==
    { {}, { <<"x.com">> }, { <<"x.com">>, <<"y.com">>, <<"test.com">> } }

AggInit ==
    /\ RetrIdle
    /\ HandlerIdle
    /\ IamIdle
    /\ recs \in LogLists
    /\ watched \in WatchedChoices
    /\ cu = NotCalled
    /\ ua = NotCalled

\* count_users(recs, watched)
CallCountUsers ==
    /\ pc = "idle"
    /\ hpc = "direct"
    /\ cu = NotCalled
    /\ cu' = CountUsers(recs, watched)
    /\ UNCHANGED <<recs, watched, ua>>
    /\ UNCHANGED <<retrVars, handlerVars>>
    /\ UNCHANGED iamVars

\* get_unique_addresses(recs)
CallGetUniqueAddresses ==
    /\ pc = "idle"
    /\ hpc = "direct"
    /\ ua = NotCalled
    /\ ua' = GetUniqueAddresses(recs)
    /\ UNCHANGED <<recs, watched, cu>>
    /\ UNCHANGED <<retrVars, handlerVars>>
    /\ UNCHANGED iamVars

AggNext ==
    \/ CallCountUsers
    \/ CallGetUniqueAddresses

AggSpec == AggInit /\ [][AggNext]_vars

\* ------------------------------------------------------- full scan
\* The pages table.scan goes through: the pages of all days, in day order.
RECURSIVE PagesFrom(_)
PagesFrom(d) == IF d > MaxDay THEN <<>> ELSE store[d] \o PagesFrom(d + 1)
ScanPages == PagesFrom(0)

\* table.scan([ExclusiveStartKey=tok]) answering normally
Scan(tok) ==
    [Items |-> ScanPages[PageOf(tok)],
     LastEvaluatedKey |-> IF PageOf(tok) < Len(ScanPages) THEN PageOf(tok) + 1 ELSE 0]

\* (changed: the scanned items are filtered like those of a partition query)
ScanKept_Filtered(items) == Kept(items)
\* logs = response['Items'], logs.extend(response['Items'])
ScanKept(items) == items

\* get_logs without both dates, up to the first scan request
StartScan ==
    /\ pc = "start"
    /\ start_date = NoDate \/ end_date = NoDate
    /\ start_time' = now
    /\ logs' = <<>>
    /\ pc' = "scan"
    /\ UNCHANGED <<start_date, end_date, store, latency, now, n, i, lek, exc, excDay,
                   last, qcount, okcount, throttles, slept, scans>>
    /\ UNCHANGED <<aggVars, handlerVars>>
    /\ UNCHANGED iamVars

\* A scan request (line 179, line 184) and the handling of its answer; no
\* ClientError is caught here.
ScanRequest(o) ==
    /\ pc = "scan"
    /\ scans' = scans + 1
    /\ now' = now + latency
    /\ last' = [day |-> -1, tok |-> lek, outcome |-> o]
    /\ IF o = "ok"
       THEN /\ logs' = logs \o ScanKept(Scan(lek).Items)
            /\ lek' = Scan(lek).LastEvaluatedKey
            /\ pc' = IF Scan(lek).LastEvaluatedKey # 0 THEN "scan" ELSE "returned"
            /\ UNCHANGED <<exc, excDay>>
       ELSE /\ Raise("ClientError", -1)
            /\ UNCHANGED <<logs, lek>>
    /\ UNCHANGED <<start_date, end_date, store, latency, start_time, n, i,
                   qcount, okcount, throttles, slept>>
    /\ UNCHANGED <<aggVars, handlerVars>>
    /\ UNCHANGED iamVars

ScanInit ==
    /\ start_date \in {NoDate} \cup (0 .. MaxDay)
    /\ end_date \in {NoDate} \cup (0 .. MaxDay)
    /\ start_date = NoDate \/ end_date = NoDate
    /\ store \in Stores
    /\ latency \in {FastLatency, SlowLatency}
    /\ now = 0
    /\ start_time = 0
    /\ pc = "start"
    /\ n = 0
    /\ i = 0
    /\ lek = 0
    /\ logs = <<>>
    /\ exc = "none"
    /\ excDay = -1
    /\ last = [day |-> -1, tok |-> 0, outcome |-> "none"]
    /\ qcount = [d \in Days |-> [p \in 1 .. NumPages(d) |-> 0]]
    /\ okcount = [d \in Days |-> [p \in 1 .. NumPages(d) |-> 0]]
    /\ throttles = [d \in Days |-> [p \in 1 .. NumPages(d) |-> 0]]
    /\ slept = [d \in Days |-> 0]
    /\ scans = 0
    /\ AggIdle
    /\ HandlerIdle
    /\ IamIdle

ScanNext ==
    \/ StartScan
    \/ \E o \in Outcomes : ScanRequest(o)

ScanSpec == ScanInit /\ [][ScanNext]_vars

\* ---------------------------------------------------- lambda_handler
\* A month has DaysInMonth days; a datetime at midnight is [month, day], day
\* counted from 1; a date string stands for the day number get_logs works on.
DaysInMonth == MaxDay
DateOf(ord) == [month |-> ord \div DaysInMonth, day |-> (ord % DaysInMonth) + 1]
Ordinal(dt) == dt.month * DaysInMonth + (dt.day - 1)
\* dt.replace(day=1)
ReplaceDay1(dt) == [dt EXCEPT !.day = 1]
\* dt - timedelta(days=1)
MinusOneDay(dt) == DateOf(Ordinal(dt) - 1)
\* dt.strftime('%Y-%m-%d')
Strftime(dt) == Ordinal(dt)

\* lines 37-38
FirstDayCurrentMonth == ReplaceDay1(DateOf(today))
LastDayLastMonth == MinusOneDay(FirstDayCurrentMonth)
\* lines 40-43
StartDateStr ==
    IF ev_start = NoDate THEN Strftime(ReplaceDay1(LastDayLastMonth)) ELSE ev_start
\* lines 45-47
EndDateStr ==
    IF ev_end = NoDate THEN Strftime(LastDayLastMonth) ELSE ev_end

HandlerInit ==
    /\ start_date = NoDate
    /\ end_date = NoDate
    /\ store \in Stores
    /\ latency \in {FastLatency, SlowLatency}
    /\ now = 0
    /\ start_time = 0
    /\ pc = "idle"
    /\ n = 0
    /\ i = 0
    /\ lek = 0
    /\ logs = <<>>
    /\ exc = "none"
    /\ excDay = -1
    /\ last = [day |-> -1, tok |-> 0, outcome |-> "none"]
    /\ qcount = [d \in Days |-> [p \in 1 .. NumPages(d) |-> 0]]
    /\ okcount = [d \in Days |-> [p \in 1 .. NumPages(d) |-> 0]]
    /\ throttles = [d \in Days |-> [p \in 1 .. NumPages(d) |-> 0]]
    /\ slept = [d \in Days |-> 0]
    /\ scans = 0
    /\ recs = <<>>
    /\ watched \in { {}, { <<"x.com">> } }
    /\ cu = NotCalled
    /\ ua = NotCalled
    /\ hpc = "entry"
    /\ ev_start \in {NoDate} \cup (0 .. MaxDay)
    /\ ev_end \in {NoDate} \cup (0 .. MaxDay)
    /\ today \in DaysInMonth .. (2 * DaysInMonth - 1)
    /\ unique_only \in BOOLEAN
    /\ sheet \in BOOLEAN
    /\ sent = NotCalled
    /\ response = [statusCode |-> 0]
    /\ IamIdle

\* lines 28-51: the arguments are read, the dates defaulted, get_logs called
HandlerEntry ==
    /\ hpc = "entry"
    /\ pc = "idle"
    /\ start_date' = StartDateStr
    /\ end_date' = EndDateStr
    /\ pc' = "start"
    /\ hpc' = "get_logs"
    /\ UNCHANGED <<store, latency, now, start_time, n, i, lek, logs, exc, excDay,
                   last, qcount, okcount, throttles, slept, scans>>
    /\ UNCHANGED <<ev_start, ev_end, today, unique_only, sheet, sent, response>>
    /\ UNCHANGED aggVars
    /\ UNCHANGED iamVars

\* An exception of get_logs leaves lambda_handler (nothing catches it).
HandlerRaised ==
    /\ hpc = "get_logs"
    /\ pc = "raised"
    /\ hpc' = "raised"
    /\ UNCHANGED <<ev_start, ev_end, today, unique_only, sheet, sent, response>>
    /\ UNCHANGED <<retrVars, aggVars>>
    /\ UNCHANGED iamVars

\* lines 54-68: the unique addresses of the logs returned
HandlerUnique ==
    /\ hpc = "get_logs"
    /\ pc = "returned"
    /\ unique_only
    /\ ua' = GetUniqueAddresses(logs)
    /\ response' = [statusCode |-> IF ua'.exc = "none" THEN 200 ELSE 500]
    /\ hpc' = "returned"
    /\ UNCHANGED <<recs, watched, cu>>
    /\ UNCHANGED <<ev_start, ev_end, today, unique_only, sheet, sent>>
    /\ UNCHANGED retrVars
    /\ UNCHANGED iamVars

\* lines 70-76 (and 94-98 when sheet is None): count_users on the logs returned
HandlerCount ==
    /\ hpc = "get_logs"
    /\ pc = "returned"
    /\ ~unique_only
    /\ cu' = CountUsers(logs, watched)
    /\ IF cu'.exc # "none"
       THEN hpc' = "raised" /\ UNCHANGED response
       ELSE IF sheet
       THEN hpc' = "send" /\ UNCHANGED response
       ELSE hpc' = "returned" /\ response' = [statusCode |-> 200]
    /\ UNCHANGED <<recs, watched, ua>>
    /\ UNCHANGED <<ev_start, ev_end, today, unique_only, sheet, sent>>
    /\ UNCHANGED retrVars
    /\ UNCHANGED iamVars

\* lines 76-98: send_to_google_sheets, which succeeds or raises, then the return
HandlerSend(o) ==
    /\ hpc = "send"
    /\ IF o = "ok"
       THEN /\ sent' = [exc |-> "none", start_date |-> start_date,
                        end_date |-> end_date, report |-> cu]
            /\ response' = [statusCode |-> 200]
            /\ hpc' = "returned"
       ELSE /\ hpc' = "raised"
            /\ UNCHANGED <<sent, response>>
    /\ UNCHANGED <<ev_start, ev_end, today, unique_only, sheet>>
    /\ UNCHANGED <<retrVars, aggVars>>
    /\ UNCHANGED iamVars

HandlerNext ==
    \/ HandlerEntry
    \/ Start
    \/ \E o \in Outcomes : QueryFirst(o)
    \/ \E o \in Outcomes : QueryNext(o)
    \/ HandlerRaised
    \/ HandlerUnique
    \/ HandlerCount
    \/ \E o \in {"ok", "fail"} : HandlerSend(o)

HandlerSpec == HandlerInit /\ [][HandlerNext]_vars

\* ------------------------------------- audit-iam-dap.py: the migration
\* The k-th policy of the account, as list_attached_user_policies gives it.
PolicyOf(k) == [PolicyName |-> <<"policy", k>>, PolicyArn |-> <<"arn", k>>]
PolicyNames == { PolicyOf(k).PolicyName : k \in 1 .. MaxPolicies }
\* The group create_unique_groups records for a policy name.
GroupOf(policy_name) == <<policy_name, "-group">>
\* The lists of distinct policies a user with direct policies can have;
\* policies differ by their number only, so the lists are taken in rising order.
PolicyLists ==
    { ps \in UNION { [1 .. k -> 1 .. MaxPolicies] : k \in 1 .. MaxPolicies } :
         \A a, b \in DOMAIN ps : a < b => ps[a] < ps[b] }

ClientOutcomes == {"ok", "EntityAlreadyExists", "error"}
DetachOutcomes == {"ok", "error"}

\* (changed: a failed attachment is reported as done)
attach_policy_to_group_AlwaysTrue(o) == TRUE
\* The value attach_policy_to_group returns when attach_group_policy ends with o.
attach_policy_to_group(o) == o \in {"ok", "EntityAlreadyExists"}
\* The value add_user_to_group returns when the IAM call ends with o.
add_user_to_group(o) == o \in {"ok", "EntityAlreadyExists"}

\* What the operator types at the prompt.
RawAnswers == {"y", "Yes ", "n", "NO", "maybe"}
\* input(...).lower().strip()
LowerStrip(raw) ==
    CASE raw = "Yes " -> "yes"
      [] raw = "NO" -> "no"
      [] OTHER -> raw
\* One round of the loop of get_user_confirmation: True, False, or ask again.
get_user_confirmation(raw) ==
    IF LowerStrip(raw) \in {"y", "yes"} THEN "True"
    ELSE IF LowerStrip(raw) \in {"n", "no"} THEN "False"
    ELSE "again"

\* The policy of the current iteration and its group.
policy == attached_policies[idx]
group_name == created_groups[policy.PolicyName]

IamInit ==
    /\ RetrIdle
    /\ AggIdle
    /\ HandlerIdle
    /\ username = "alice"
    /\ \E ps \in PolicyLists : attached_policies = [k \in DOMAIN ps |-> PolicyOf(ps[k])]
    /\ \E S \in SUBSET PolicyNames : created_groups = [nm \in S |-> GroupOf(nm)]
    /\ ipc = "loop"
    /\ idx = 1
    /\ prompts = 0
    /\ group_policies = {}
    /\ group_members = {}
    /\ user_policies = { attached_policies[k].PolicyArn : k \in DOMAIN attached_policies }
    /\ calls = <<>>

\* The loop goes to the next policy.
NextPolicy ==
    /\ idx' = idx + 1
    /\ ipc' = "loop"
    /\ UNCHANGED prompts

\* for policy in attached_policies, up to the lookup of its group (168-181)
LoopHead ==
    /\ ipc = "loop"
    /\ IF idx > Len(attached_policies)
       THEN /\ ipc' = "done"
            /\ UNCHANGED <<idx, prompts, calls>>
       ELSE IF policy.PolicyName \notin DOMAIN created_groups
       THEN /\ NextPolicy
            /\ calls' = Append(calls, [op |-> "no group", idx |-> idx])
       ELSE /\ ipc' = "attach"
            /\ calls' = Append(calls, [op |-> "group", idx |-> idx, group |-> group_name])
            /\ UNCHANGED <<idx, prompts>>
    /\ UNCHANGED <<username, attached_policies, created_groups,
                   group_policies, group_members, user_policies>>
    /\ UNCHANGED <<retrVars, aggVars, handlerVars>>

\* line 184: attach_policy_to_group(iam_client, group_name, policy_arn); the
\* attachment exists after the call unless it ended with another error.
AttachPolicyToGroup(o) ==
    /\ ipc = "attach"
    /\ calls' = Append(calls, [op |-> "attach_group_policy", idx |-> idx,
                               group |-> group_name, arn |-> policy.PolicyArn,
                               outcome |-> o])
    /\ group_policies' = IF o = "error" THEN group_policies
                         ELSE group_policies \cup { <<group_name, policy.PolicyArn>> }
    /\ IF attach_policy_to_group(o)
       THEN ipc' = "add" /\ UNCHANGED <<idx, prompts>>
       ELSE NextPolicy
    /\ UNCHANGED <<username, attached_policies, created_groups, group_members, user_policies>>
    /\ UNCHANGED <<retrVars, aggVars, handlerVars>>

\* line 186: add_user_to_group(iam_client, username, group_name)
AddUserToGroup(o) ==
    /\ ipc = "add"
    /\ calls' = Append(calls, [op |-> "add_user_to_group", idx |-> idx,
                               group |-> group_name, user |-> username,
                               outcome |-> o])
    /\ group_members' = IF o = "error" THEN group_members
                        ELSE group_members \cup { <<group_name, username>> }
    /\ IF add_user_to_group(o)
       THEN ipc' = "confirm" /\ UNCHANGED <<idx, prompts>>
       ELSE NextPolicy
    /\ UNCHANGED <<username, attached_policies, created_groups, group_policies, user_policies>>
    /\ UNCHANGED <<retrVars, aggVars, handlerVars>>

\* lines 188-195: one answer of the operator to "Remove direct policy
\* attachment from user ...?"
Confirm(raw) ==
    /\ ipc = "confirm"
    /\ calls' = Append(calls, [op |-> "input", idx |-> idx, answer |-> LowerStrip(raw)])
    /\ CASE get_user_confirmation(raw) = "True" ->
                ipc' = "detach" /\ UNCHANGED <<idx, prompts>>
         [] get_user_confirmation(raw) = "False" -> NextPolicy
         [] OTHER ->
                /\ prompts < MaxPrompts
                /\ prompts' = prompts + 1
                /\ UNCHANGED <<ipc, idx>>
    /\ UNCHANGED <<username, attached_policies, created_groups,
                   group_policies, group_members, user_policies>>
    /\ UNCHANGED <<retrVars, aggVars, handlerVars>>

\* line 191: detach_policy_from_user(iam_client, username, policy_arn)
DetachPolicyFromUser(o) ==
    /\ ipc = "detach"
    /\ calls' = Append(calls, [op |-> "detach_user_policy", idx |-> idx,
                               user |-> username, arn |-> policy.PolicyArn,
                               outcome |-> o])
    /\ user_policies' = IF o = "ok" THEN user_policies \ {policy.PolicyArn}
                        ELSE user_policies
    /\ NextPolicy
    /\ UNCHANGED <<username, attached_policies, created_groups, group_policies, group_members>>
    /\ UNCHANGED <<retrVars, aggVars, handlerVars>>

IamNext ==
    \/ LoopHead
    \/ \E o \in ClientOutcomes : AttachPolicyToGroup(o)
    \/ \E o \in ClientOutcomes : AddUserToGroup(o)
    \/ \E raw \in RawAnswers : Confirm(raw)
    \/ \E o \in DetachOutcomes : DetachPolicyFromUser(o)

IamSpec == IamInit /\ [][IamNext]_vars

TypeOK ==
    /\ pc \in {"idle", "start", "first", "next", "scan", "returned", "raised"}
    /\ exc \in {"none", "ClientError", "KeyError", "TimeoutError"}
    /\ i \in 0 .. (MaxAttempts - 1)
    /\ n \in 0 .. MaxDay
\* ---------------------------------------------------- derived history
RECURSIVE SumTo(_, _)
SumTo(f, k) == IF k = 0 THEN 0 ELSE f[k] + SumTo(f, k - 1)
DayThrottles(d) == SumTo(throttles[d], NumPages(d))
DayQueries(d) == SumTo(qcount[d], NumPages(d))
Queried(d) == DayQueries(d) > 0
InRange(d) == start_date <= d /\ d < end_date
Requested == qcount' # qcount

\* C1: when a page request was answered with the rate-limit signal on every
\* attempt up to the ceiling of 10, get_logs does not return normally (it
\* propagates the rate-limit error).
C1_CeilingIsFatal ==
    (\E d \in Days : \E p \in 1 .. NumPages(d) : throttles[d][p] >= 10)
        => pc # "returned"

\* C2: after a rate-limit signal the next request is the same request (same
\* day, same continuation token); a page already answered is not requested
\* again; a day is given up on only when one of its pages alone used up the
\* attempt ceiling.
C2_RetrySamePage ==
    [][ /\ (last.outcome = "throttle" /\ Requested)
            => (last'.day = last.day /\ last'.tok = last.tok)
        /\ Requested => okcount[last'.day][PageOf(last'.tok)] = 0
        /\ (Requested /\ last'.outcome = "throttle" /\ (n' # n \/ pc' = "returned"))
            => throttles'[last'.day][PageOf(last'.tok)] = 10
      ]_vars

\* C3: no page request (first page of a day, continuation page, retried
\* request) is issued once the time elapsed since the start of the retrieval
\* exceeds TIMEOUT_SECONDS, and a retrieval that is ended for taking too long
\* ends with a timeout error naming the day being processed.
C3_BudgetCheckedBeforeEveryFetch ==
    [][ /\ Requested => now - start_time <= 900
        /\ (exc' = "TimeoutError") => (excDay' = start_date + n)
      ]_vars
\* C4: the budget is one window from a single start instant, taken when the
\* retrieval starts: the start instant never changes afterwards (not between
\* days, pages or attempts), and the check made after a continuation page ends
\* the retrieval exactly when the time since that instant, sleeps and earlier
\* days included, exceeds TIMEOUT_SECONDS.
C4_SingleBudgetWindow ==
    [][ /\ (pc = "start") => (start_time' = now)
        /\ (pc # "start") => (start_time' = start_time)
        /\ (pc = "next" /\ Requested /\ last'.outcome = "ok" /\ exc' # "KeyError")
            => ((exc' = "TimeoutError") <=> (now' - start_time' > 900))
      ]_vars

\* A timeout on the second day of a range against the fast backend: the budget
\* was used up by the backoff sleeps of the first day.
C4_Witness ==
    /\ exc = "TimeoutError"
    /\ latency = FastLatency
    /\ n >= 1
    /\ slept[start_date] > 900
    /\ now - start_time - slept[start_date] < 900
\* C5: the days for which partition queries are issued lie in
\* [start_date, end_date) and are visited in ascending order (the latest
\* request is always for the largest day queried so far); when get_logs
\* returns every day of the range was queried; for start_date >= end_date no
\* query is issued and the empty list is returned without an error.
C5_DaysOfRange ==
    /\ \A d \in Days : Queried(d) => (start_date <= d /\ d < end_date /\ d <= last.day)
    /\ (pc = "returned")
        => \A d \in Days : (start_date <= d /\ d < end_date) => Queried(d)
    /\ (start_date >= end_date /\ pc # "start")
        => /\ pc = "returned"
           /\ logs = <<>>
           /\ exc = "none"
           /\ \A d \in Days : ~Queried(d)

\* A range of at least two days was retrieved: each of its days was queried,
\* the end day was not.
C5_Witness ==
    /\ pc = "returned"
    /\ end_date - start_date >= 2
    /\ \A d \in start_date .. (end_date - 1) : Queried(d)
    /\ ~Queried(end_date)

\* C6: every item of the list built by bounded-range retrieval (hence of the
\* list returned) has one of the four event types of interest, whichever page
\* it came from.
C6_OnlyTypesOfInterest ==
    \A k \in 1 .. Len(logs) :
        /\ "type" \in DOMAIN logs[k]
        /\ logs[k].type \in {"s", "f", "scp", "fcpr"}

\* get_logs returned after reading a continuation page that held an item of
\* another type.
C6_Witness ==
    /\ pc = "returned"
    /\ Len(logs) >= 3
    /\ \E d \in Days :
          /\ start_date <= d /\ d < end_date
          /\ NumPages(d) >= 2
          /\ \E k \in 1 .. Len(store[d][2]) :
                store[d][2][k].type \notin {"s", "f", "scp", "fcpr"}

\* The of-interest items of the pages of the days s .. e-1, in day order then
\* page order.
RECURSIVE WantedOfPages(_, _)
WantedOfPages(pages, k) ==
    IF k > Len(pages) THEN <<>>
    ELSE SelectSeq(pages[k], LAMBDA it : "type" \in DOMAIN it /\ it.type \in {"s", "f", "scp", "fcpr"})
         \o WantedOfPages(pages, k + 1)
RECURSIVE WantedOfDays(_, _)
WantedOfDays(s, e) ==
    IF s >= e THEN <<>> ELSE WantedOfPages(store[s], 1) \o WantedOfDays(s + 1, e)

NeverThrottled == \A d \in Days : \A p \in 1 .. NumPages(d) : throttles[d][p] = 0

\* C7: when the backend never failed and no timeout was raised, get_logs
\* returns the concatenation, in day order then page order, of the items of
\* interest of every page of every day of the range, having requested every
\* page of these days exactly once and nothing else.
C7_AllPagesInOrder ==
    (pc = "returned" /\ NeverThrottled)
        => /\ logs = WantedOfDays(start_date, end_date)
           /\ \A d \in Days : \A p \in 1 .. NumPages(d) :
                 qcount[d][p] = (IF start_date <= d /\ d < end_date THEN 1 ELSE 0)

\* A range of two days, one of them of two pages, retrieved without a failure.
C7_Witness ==
    /\ pc = "returned"
    /\ NeverThrottled
    /\ end_date - start_date >= 2
    /\ \E d \in start_date .. (end_date - 1) : NumPages(d) >= 2
    /\ Len(logs) >= 3
\* C8: the backoff delays of a day are 1, 2, 4, ... seconds (2^k for attempt
\* index k = 0, 1, ...); when a page request was rate-limited exactly twice,
\* these being the only rate-limit signals of its day, and is then answered,
\* the answer is taken (its items of interest end the list) and the time slept
\* is 1 + 2 seconds.
C8_BackoffDoubles ==
    /\ \A d \in Days : slept[d] = 2 ^ DayThrottles(d) - 1
    /\ \A d \in Days : \A p \in 1 .. NumPages(d) :
          ( /\ last.day = d /\ PageOf(last.tok) = p /\ last.outcome = "ok"
            /\ throttles[d][p] = 2
            /\ DayThrottles(d) = 2 )
          => /\ slept[d] = 1 + 2
             /\ exc # "ClientError"
             /\ LET want == WantedOfPages(<<store[d][p]>>, 1)
                IN  /\ Len(logs) >= Len(want)
                    /\ SubSeq(logs, Len(logs) - Len(want) + 1, Len(logs)) = want

\* A continuation page was rate-limited twice and then answered, and get_logs
\* returned.
C8_Witness ==
    /\ pc = "returned"
    /\ last.outcome = "ok"
    /\ last.tok = 2
    /\ throttles[last.day][2] = 2
    /\ DayThrottles(last.day) = 2
    /\ slept[last.day] = 3

Finished == pc \in {"returned", "raised"}

\* C9: no page is requested more than 10 times, and get_logs over a finite
\* range ends (returns or raises), whatever the backend answers - in
\* particular when it rate-limits every request.
C9_BoundedRetriesTerminate ==
    /\ [](\A d \in Days : \A p \in 1 .. NumPages(d) : qcount[d][p] <= 10)
    /\ <>Finished

\* The backend rate-limited every request of a two-day range: each day's first
\* page was requested 10 times, and get_logs is over.
C9_Witness ==
    /\ Finished
    /\ end_date - start_date >= 2
    /\ \A d \in start_date .. (end_date - 1) :
          /\ qcount[d][1] = 10
          /\ throttles[d][1] = 10
    /\ \A d \in Days : \A p \in 1 .. NumPages(d) : okcount[d][p] = 0

\* C10: a backend failure other than the rate-limit signal ends get_logs with
\* that error at once: the step that receives it sleeps not at all, appends
\* nothing and returns no list, and no step (no further request, no sleep, no
\* return) follows it.
C10_OtherFailureRaised ==
    [][ /\ last.outcome # "fail"
        /\ (Requested /\ last'.outcome = "fail")
            => /\ pc' = "raised"
               /\ exc' = "ClientError"
               /\ slept' = slept
               /\ now' = now + latency
               /\ logs' = logs
      ]_vars

\* The failure came on a continuation page of the first day of a longer range,
\* after items had been collected; the next day was never queried.
C10_Witness ==
    /\ exc = "ClientError"
    /\ last.outcome = "fail"
    /\ last.tok # 0
    /\ n = 0
    /\ end_date - start_date >= 2
    /\ Len(logs) > 0
    /\ ~Queried(start_date + 1)
\* C11: after a retrieval failure (an exception of get_logs, or the attempt
\* ceiling reached on a page) lambda_handler runs neither count_users nor
\* get_unique_addresses nor send_to_google_sheets, and returns no result.
C11_RetrievalFailureAbortsPipeline ==
    (\/ exc # "none"
     \/ \E d \in Days : \E p \in 1 .. NumPages(d) : throttles[d][p] >= 10)
        => /\ cu = NotCalled
           /\ ua = NotCalled
           /\ sent = NotCalled
           /\ response.statusCode = 0

\* The list ls in the order given by the permutation perm of its indices.
Permuted(ls, perm) == [k \in 1 .. Len(ls) |-> ls[perm[k]]]

\* C12: count_users returns the same nine values for every permutation of the
\* list of logs, the watched and excluded domains being the same.
C12_OrderIndependent ==
    (cu # NotCalled)
        => \A perm \in Permutations(1 .. Len(recs)) :
              CountUsers(Permuted(recs, perm), watched) = cu

\* Three different logs of watched domains, two users counted.
C12_Witness ==
    /\ cu # NotCalled
    /\ Len(recs) = 3
    /\ recs[1] # recs[2] /\ recs[2] # recs[3] /\ recs[1] # recs[3]
    /\ watched # {}
    /\ cu.total_users >= 2
    /\ cu.users_by_domain # <<>>

\* The list ls without its k-th element.
RemoveAt(ls, k) == SubSeq(ls, 1, k - 1) \o SubSeq(ls, k + 1, Len(ls))

\* A log whose user_name has no '@', ends with '@', or has the excluded domain
\* test.com after its last '@'.
IgnoredAddress(log) ==
    /\ "user_name" \in DOMAIN log
    /\ \/ \A k \in 1 .. Len(log.user_name) : log.user_name[k] # "@"
       \/ Len(log.user_name) > 0 /\ log.user_name[Len(log.user_name)] = "@"
       \/ \E k \in 1 .. Len(log.user_name) :
             /\ log.user_name[k] = "@"
             /\ SubSeq(log.user_name, k + 1, Len(log.user_name)) = <<"test.com">>

\* C13: a log whose user_name has no '@', ends with '@' or has an excluded
\* domain changes nothing count_users returns (the result is that of the list
\* without it), and an excluded domain is a key of none of the maps returned,
\* even when it is a watched domain.
C13_IgnoredLogsChangeNothing ==
    (cu # NotCalled)
        => /\ \A k \in 1 .. Len(recs) :
                 IgnoredAddress(recs[k]) => CountUsers(RemoveAt(recs, k), watched) = cu
           /\ <<"test.com">> \notin
                 ((DOMAIN cu.unique_users_by_domain)
                  \cup (DOMAIN cu.successful_logins_by_domain)
                  \cup (DOMAIN cu.failed_logins_by_domain)
                  \cup (DOMAIN cu.password_changes_by_domain)
                  \cup (DOMAIN cu.users_by_domain))

\* A log of the excluded domain, which is also watched, among counted logs.
C13_Witness ==
    /\ cu # NotCalled
    /\ <<"test.com">> \in watched
    /\ \E k \in 1 .. Len(recs) :
          /\ "user_name" \in DOMAIN recs[k]
          /\ recs[k].user_name = <<"a", "@", "test.com">>
    /\ cu.total_users >= 1
    /\ cu.successful_logins >= 1

\* The sum of the values of the dict d over the keys in S.
RECURSIVE SumOver(_, _)
SumOver(d, S) ==
    IF S = {} THEN 0
    ELSE LET key == CHOOSE x \in S : TRUE IN d[key] + SumOver(d, S \ {key})
SumValues(d) == SumOver(d, DOMAIN d)

\* C14: when watched_domains covers every domain present, the addresses
\* returned by get_unique_addresses are the union of the keys of the
\* watched-domain detail of count_users for the same logs, and their number is
\* total_users and the sum of the unique-users-by-domain values, for every
\* input (logs without a type included).
C14_UniqueAddressesConsistent ==
    (/\ cu # NotCalled
     /\ ua # NotCalled
     /\ watched = { <<"x.com">>, <<"y.com">>, <<"test.com">> })
        => /\ ua.addresses =
                 UNION { DOMAIN cu.users_by_domain[d] : d \in DOMAIN cu.users_by_domain }
           /\ Cardinality(ua.addresses) = cu.total_users
           /\ Cardinality(ua.addresses) = SumValues(cu.unique_users_by_domain)

\* The indices of the logs of ls with user_name u and type t.
LogsOf(ls, u, t) ==
    { k \in 1 .. Len(ls) :
         /\ "user_name" \in DOMAIN ls[k] /\ ls[k].user_name = u
         /\ "type" \in DOMAIN ls[k] /\ ls[k].type = t }
\* ls without the logs of user_name u.
WithoutUser(ls, u) ==
    SelectSeq(ls, LAMBDA r : ~("user_name" \in DOMAIN r /\ r.user_name = u))

\* C15: a well-formed, non-excluded user u of domain d with N >= 1 logs of
\* type 's' adds exactly N to successful_logins and to
\* successful_logins_by_domain[d], and exactly 1 to total_users and to
\* unique_users_by_domain[d], compared with the same list without the logs of u.
C15_SuccessCountedPerLogUserOnce ==
    (cu # NotCalled)
        => \A k \in 1 .. Len(recs) :
              ( /\ "user_name" \in DOMAIN recs[k]
                /\ ~IgnoredAddress(recs[k])
                /\ LogsOf(recs, recs[k].user_name, "s") # {} )
              => LET u == recs[k].user_name
                     d == DomainOf(u)
                     N == Cardinality(LogsOf(recs, u, "s"))
                     base == CountUsers(WithoutUser(recs, u), watched)
                 IN  /\ cu.successful_logins = base.successful_logins + N
                     /\ Get(cu.successful_logins_by_domain, d, 0)
                           = Get(base.successful_logins_by_domain, d, 0) + N
                     /\ cu.total_users = base.total_users + 1
                     /\ Get(cu.unique_users_by_domain, d, 0)
                           = Get(base.unique_users_by_domain, d, 0) + 1

\* The same user with two logs of type 's' and a log of another type.
C15_Witness ==
    /\ cu # NotCalled
    /\ Len(recs) = 3
    /\ Cardinality(LogsOf(recs, <<"a", "@", "x.com">>, "s")) = 2
    /\ LogsOf(recs, <<"a", "@", "x.com">>, "scp") # {}
    /\ cu.successful_logins = 2
    /\ cu.total_users = 1

\* Every log of ls has a well-formed, non-excluded user_name and a type.
AllCounted(ls) ==
    \A k \in 1 .. Len(ls) :
        /\ "user_name" \in DOMAIN ls[k]
        /\ "type" \in DOMAIN ls[k]
        /\ ~IgnoredAddress(ls[k])
\* The indices of the logs of ls with a type in ts, of domain d.
TypedOf(ls, ts, d) ==
    { k \in 1 .. Len(ls) : ls[k].type \in ts /\ DomainOf(ls[k].user_name) = d }
\* The dict of the numbers of logs with a type in ts, per domain having some.
PerDomain(ls, ts) ==
    [d \in { DomainOf(ls[k].user_name) : k \in { j \in 1 .. Len(ls) : ls[j].type \in ts } }
        |-> Cardinality(TypedOf(ls, ts, d))]

\* C16: for logs that all have a well-formed, non-excluded user_name and a
\* type, count_users returns the number of distinct user_names, their number
\* per domain, the numbers of 's' logs, of 'f' logs and of 'scp' or 'fcpr'
\* logs, and the same numbers per domain; the logs (a@x.com, s), (b@y.com, f),
\* (a@x.com, scp) give 2, 1, 1, 1 and {x.com: 1, y.com: 1}.
C16_CountsAreExact ==
    (cu # NotCalled /\ AllCounted(recs))
        => LET users == { recs[k].user_name : k \in 1 .. Len(recs) }
               count(ts) == Cardinality({ k \in 1 .. Len(recs) : recs[k].type \in ts })
           IN  /\ cu.total_users = Cardinality(users)
               /\ cu.unique_users_by_domain =
                     [d \in { DomainOf(u) : u \in users }
                         |-> Cardinality({ u \in users : DomainOf(u) = d })]
               /\ cu.successful_logins = count({"s"})
               /\ cu.failed_logins = count({"f"})
               /\ cu.password_changes = count({"scp"}) + count({"fcpr"})
               /\ cu.successful_logins_by_domain = PerDomain(recs, {"s"})
               /\ cu.failed_logins_by_domain = PerDomain(recs, {"f"})
               /\ cu.password_changes_by_domain = PerDomain(recs, {"scp", "fcpr"})
               /\ (recs = << [user_name |-> <<"a", "@", "x.com">>, type |-> "s"],
                             [user_name |-> <<"b", "@", "y.com">>, type |-> "f"],
                             [user_name |-> <<"a", "@", "x.com">>, type |-> "scp"] >>)
                     => /\ cu.total_users = 2
                        /\ cu.successful_logins = 1
                        /\ cu.failed_logins = 1
                        /\ cu.password_changes = 1
                        /\ cu.unique_users_by_domain
                              = [d \in { <<"x.com">>, <<"y.com">> } |-> 1]

\* Logs of two users of one domain with both password-change codes.
C16_Witness ==
    /\ cu # NotCalled
    /\ AllCounted(recs)
    /\ Len(recs) = 3
    /\ \E k \in 1 .. 3 : recs[k].type = "fcpr"
    /\ \E k \in 1 .. 3 : recs[k].type = "scp"
    /\ cu.password_changes = 2
    /\ cu.total_users = 2

\* A log without user_name, or whose user_name has no '@' or ends with '@'.
NoUsableName(log) ==
    \/ "user_name" \notin DOMAIN log
    \/ \A k \in 1 .. Len(log.user_name) : log.user_name[k] # "@"
    \/ log.user_name[Len(log.user_name)] = "@"

\* C17: count_users and get_unique_addresses raise nothing, whatever fields
\* the logs lack and however malformed the user_names are, and return what
\* they return for the list without the logs that lack a field they read or
\* have a malformed user_name.
C17_AggregationNeverFails ==
    /\ (cu # NotCalled)
          => /\ cu.exc = "none"
             /\ cu = CountUsers(SelectSeq(recs, LAMBDA r : ~NoUsableName(r)
                                                          /\ "type" \in DOMAIN r),
                                watched)
    /\ (ua # NotCalled)
          => /\ ua.exc = "none"
             /\ ua = GetUniqueAddresses(SelectSeq(recs, LAMBDA r : ~NoUsableName(r)))

\* Both functions returned for a list holding a log without data, a log
\* without user_name and a log without type.
C17_Witness ==
    /\ cu # NotCalled
    /\ ua # NotCalled
    /\ \E k \in 1 .. Len(recs) : DOMAIN recs[k] = {"id"}
    /\ \E k \in 1 .. Len(recs) : DOMAIN recs[k] = {"type"}
    /\ \E k \in 1 .. Len(recs) : DOMAIN recs[k] = {"user_name"}

\* C18: with neither start_date nor end_date in the event, once get_logs has
\* returned, the days queried are exactly the days of the calendar month
\* before that of today, first to last.
C18_DefaultIsPreviousMonth ==
    (/\ hpc # "direct"
     /\ ev_start = NoDate
     /\ ev_end = NoDate
     /\ pc = "returned")
        => \A d \in Days : Queried(d) <=> (d \div MaxDay = (today \div MaxDay) - 1)

\* C19: bounded-range get_logs does not raise because an item lacks its type.
C19_MissingTypeNotRaised ==
    exc # "KeyError"

\* All items of the pages of the days d .. MaxDay, in order, unfiltered.
RECURSIVE AllItemsOfPages(_, _)
AllItemsOfPages(pages, k) ==
    IF k > Len(pages) THEN <<>> ELSE pages[k] \o AllItemsOfPages(pages, k + 1)
RECURSIVE AllItemsFrom(_)
AllItemsFrom(d) ==
    IF d > MaxDay THEN <<>> ELSE AllItemsOfPages(store[d], 1) \o AllItemsFrom(d + 1)
RECURSIVE PageCountFrom(_)
PageCountFrom(d) == IF d > MaxDay THEN 0 ELSE Len(store[d]) + PageCountFrom(d + 1)

\* C20: without a date range get_logs scans the table page by page until no
\* LastEvaluatedKey remains and returns every item of every page, of any type
\* or without one; no timeout is raised however long the scan takes.
C20_FullScanReturnsEverything ==
    /\ exc \notin {"TimeoutError", "KeyError"}
    /\ (pc = "returned")
          => /\ logs = AllItemsFrom(0)
             /\ scans = PageCountFrom(0)
    /\ (pc = "scan" /\ last.outcome = "ok") => lek = scans + 1

\* A scan that took longer than TIMEOUT_SECONDS returned items of unrecognized
\* types and an item without a type.
C20_Witness ==
    /\ pc = "returned"
    /\ start_date = NoDate
    /\ now - start_time > 900
    /\ \E k \in 1 .. Len(logs) : "type" \notin DOMAIN logs[k]
    /\ \E k \in 1 .. Len(logs) :
          "type" \in DOMAIN logs[k] /\ logs[k].type \notin {"s", "f", "scp", "fcpr"}

\* A log count_users does not pass over: it has a user_name and a type, and its
\* user_name is well formed and not of an excluded domain.
NotSkipped(log) ==
    /\ "user_name" \in DOMAIN log
    /\ "type" \in DOMAIN log
    /\ ~IgnoredAddress(log)
\* A log whose type is none of 's', 'f', 'scp', 'fcpr'.
Unrecognized(log) ==
    "type" \in DOMAIN log /\ log.type \notin {"s", "f", "scp", "fcpr"}
\* The user_names of the logs of ls that count_users does not pass over.
UsersOf(ls) == { ls[k].user_name : k \in { j \in 1 .. Len(ls) : NotSkipped(ls[j]) } }

\* C21: a log whose type is none of the four recognized codes raises nothing
\* in count_users and touches no event counter: successful_logins,
\* failed_logins, password_changes and their per-domain dicts are those of the
\* list without that log.
C21_UnrecognizedTypeTouchesNoCounter ==
    (cu # NotCalled)
        => /\ cu.exc = "none"
           /\ \A k \in 1 .. Len(recs) :
                 Unrecognized(recs[k])
                 => LET base == CountUsers(RemoveAt(recs, k), watched)
                    IN  /\ cu.successful_logins = base.successful_logins
                        /\ cu.failed_logins = base.failed_logins
                        /\ cu.password_changes = base.password_changes
                        /\ cu.successful_logins_by_domain = base.successful_logins_by_domain
                        /\ cu.failed_logins_by_domain = base.failed_logins_by_domain
                        /\ cu.password_changes_by_domain = base.password_changes_by_domain

\* A log of an unrecognized type of a user whose domain has no counted event,
\* next to a counted log of another domain.
C21_Witness ==
    /\ cu # NotCalled
    /\ \E k \in 1 .. Len(recs) : Unrecognized(recs[k]) /\ NotSkipped(recs[k])
    /\ cu.failed_logins = 1
    /\ cu.successful_logins = 0
    /\ cu.password_changes = 0
    /\ DOMAIN cu.unique_users_by_domain = { <<"x.com">>, <<"y.com">> }

\* C22: for every watched, non-excluded domain d and user_name u of domain d,
\* users_by_domain[d]['emails'][u] is the number of logs of u that count_users
\* did not pass over (no entry when there is none), and a domain that is not
\* in watched_domains is no key of users_by_domain.
C22_WatchedDetailCountsLogs ==
    (cu # NotCalled)
        => /\ DOMAIN cu.users_by_domain \subseteq watched
           /\ \A k \in 1 .. Len(recs) :
                 ( /\ "user_name" \in DOMAIN recs[k]
                   /\ ~IgnoredAddress(recs[k])
                   /\ DomainOf(recs[k].user_name) \in watched )
                 => LET u == recs[k].user_name
                        d == DomainOf(u)
                        N == Cardinality({ j \in 1 .. Len(recs) :
                                              NotSkipped(recs[j]) /\ recs[j].user_name = u })
                    IN  Get(Get(cu.users_by_domain, d, <<>>), u, 0) = N
           /\ \A d \in DOMAIN cu.users_by_domain :
                 DOMAIN cu.users_by_domain[d] = { u \in UsersOf(recs) : DomainOf(u) = d }

\* Two logs of one user of a watched domain and a log of a domain that is not
\* watched.
C22_Witness ==
    /\ cu # NotCalled
    /\ watched = { <<"x.com">> }
    /\ <<"y.com">> \in DOMAIN cu.unique_users_by_domain
    /\ <<"x.com">> \in DOMAIN cu.users_by_domain
    /\ Get(cu.users_by_domain[<<"x.com">>], <<"a", "@", "x.com">>, 0) = 2

\* C24: for every input, each of successful_logins, failed_logins and
\* password_changes is the sum of the values of its per-domain dict,
\* total_users is the sum of the unique_users_by_domain values, every
\* per-domain value is at least 1, and for each watched domain d present the
\* number of keys of users_by_domain[d]['emails'] is unique_users_by_domain[d].
C24_TotalsAgreeWithPerDomain ==
    (cu # NotCalled)
        => /\ cu.successful_logins = SumValues(cu.successful_logins_by_domain)
           /\ cu.failed_logins = SumValues(cu.failed_logins_by_domain)
           /\ cu.password_changes = SumValues(cu.password_changes_by_domain)
           /\ cu.total_users = SumValues(cu.unique_users_by_domain)
           /\ \A d \in DOMAIN cu.successful_logins_by_domain :
                 cu.successful_logins_by_domain[d] >= 1
           /\ \A d \in DOMAIN cu.failed_logins_by_domain :
                 cu.failed_logins_by_domain[d] >= 1
           /\ \A d \in DOMAIN cu.password_changes_by_domain :
                 cu.password_changes_by_domain[d] >= 1
           /\ \A d \in DOMAIN cu.unique_users_by_domain :
                 cu.unique_users_by_domain[d] >= 1
           /\ \A d \in DOMAIN cu.users_by_domain :
                 /\ d \in DOMAIN cu.unique_users_by_domain
                 /\ Cardinality(DOMAIN cu.users_by_domain[d]) = cu.unique_users_by_domain[d]
           /\ \A d \in watched \cap DOMAIN cu.unique_users_by_domain :
                 d \in DOMAIN cu.users_by_domain

\* Two users of one watched domain and a user of another domain, with events
\* of two kinds.
C24_Witness ==
    /\ cu # NotCalled
    /\ Len(recs) = 3
    /\ <<"x.com">> \in watched
    /\ cu.total_users = 3
    /\ Get(cu.unique_users_by_domain, <<"x.com">>, 0) = 2
    /\ cu.password_changes >= 1
    /\ cu.failed_logins >= 1

\* C25: a log with a well-formed, non-excluded user_name and an unrecognized
\* type still adds its user_name to unique_users and to the set of its domain,
\* and still increments users_by_domain[d]['emails'][u] for a watched domain
\* d; the sum of the users_by_domain[d]['emails'] values can then exceed the
\* sum of the success, failure and password-change counters of d (the state
\* C25_Witness).
C25_UnrecognizedTypeStillCountsUser ==
    (cu # NotCalled)
        => \A k \in 1 .. Len(recs) :
              (NotSkipped(recs[k]) /\ Unrecognized(recs[k]))
              => LET u == recs[k].user_name
                     d == DomainOf(u)
                     base == CountUsers(RemoveAt(recs, k), watched)
                     new == IF u \in UsersOf(RemoveAt(recs, k)) THEN 0 ELSE 1
                 IN  /\ cu.total_users = base.total_users + new
                     /\ cu.total_users = Cardinality(UsersOf(recs))
                     /\ Get(cu.unique_users_by_domain, d, 0)
                           = Get(base.unique_users_by_domain, d, 0) + new
                     /\ Get(cu.unique_users_by_domain, d, 0) >= 1
                     /\ (d \in watched)
                           => /\ d \in DOMAIN cu.users_by_domain
                              /\ Get(cu.users_by_domain[d], u, 0)
                                    = Get(Get(base.users_by_domain, d, <<>>), u, 0) + 1

\* The detail of a watched domain sums to more than the events counted for
\* that domain, a log of unrecognized type being among the logs of the domain.
C25_Witness ==
    /\ cu # NotCalled
    /\ <<"x.com">> \in watched
    /\ \E k \in 1 .. Len(recs) : NotSkipped(recs[k]) /\ Unrecognized(recs[k])
    /\ <<"x.com">> \in DOMAIN cu.users_by_domain
    /\ Get(cu.successful_logins_by_domain, <<"x.com">>, 0) >= 1
    /\ SumValues(cu.users_by_domain[<<"x.com">>])
          > Get(cu.successful_logins_by_domain, <<"x.com">>, 0)
            + Get(cu.failed_logins_by_domain, <<"x.com">>, 0)
            + Get(cu.password_changes_by_domain, <<"x.com">>, 0)

\* The number of times the item it occurs in the list ls.
Occurrences(ls, it) == Cardinality({ k \in 1 .. Len(ls) : ls[k] = it })

\* C23: whenever get_logs returns for a date range, each item of interest
\* stored in a day of the range is in the list returned exactly once (and no
\* item of another day is), whatever requests were throttled; a throttled
\* continuation request does not append the earlier pages of its day again.
C23_EachRecordExactlyOnce ==
    (pc = "returned" /\ start_date # NoDate)
        => \A d \in Days : \A p \in 1 .. NumPages(d) : \A j \in 1 .. Len(store[d][p]) :
              ("type" \in DOMAIN store[d][p][j]
                  /\ store[d][p][j].type \in {"s", "f", "scp", "fcpr"})
              => Occurrences(logs, store[d][p][j]) = (IF InRange(d) THEN 1 ELSE 0)

\* A step of the migration of the k-th policy that failed or was declined: no
\* group recorded, an IAM call that ended with an error, or the answer no.
StepFailed(c) ==
    \/ calls[c].op = "no group"
    \/ calls[c].op \in {"attach_group_policy", "add_user_to_group"} /\ calls[c].outcome = "error"
    \/ calls[c].op = "input" /\ calls[c].answer \in {"n", "no"}

\* C26: detach_user_policy is called for a user and a policy only after, in
\* this order, a group was recorded for the policy, the policy was attached to
\* that group successfully, the user was added to that group successfully and
\* the operator confirmed the removal; after a step that failed or was
\* declined nothing more is done for that policy, detach_user_policy least of
\* all, and the loop goes on to the next policy, so that every policy has been
\* taken up when the function returns.
C26_DetachOnlyAfterMigration ==
    /\ \A c \in 1 .. Len(calls) :
          (calls[c].op = "detach_user_policy")
          => LET k == calls[c].idx
                 pol == attached_policies[k]
             IN  /\ calls[c].user = username
                 /\ calls[c].arn = pol.PolicyArn
                 /\ pol.PolicyName \in DOMAIN created_groups
                 /\ \E c0 \in 1 .. (c - 1) :
                       /\ calls[c0] = [op |-> "group", idx |-> k,
                                       group |-> created_groups[pol.PolicyName]]
                       /\ \E c1 \in (c0 + 1) .. (c - 1) :
                             /\ calls[c1].op = "attach_group_policy"
                             /\ calls[c1].idx = k
                             /\ calls[c1].group = created_groups[pol.PolicyName]
                             /\ calls[c1].arn = pol.PolicyArn
                             /\ calls[c1].outcome # "error"
                             /\ \E c2 \in (c1 + 1) .. (c - 2) :
                                   /\ calls[c2].op = "add_user_to_group"
                                   /\ calls[c2].idx = k
                                   /\ calls[c2].group = created_groups[pol.PolicyName]
                                   /\ calls[c2].user = username
                                   /\ calls[c2].outcome # "error"
                 /\ calls[c - 1].op = "input"
                 /\ calls[c - 1].idx = k
                 /\ calls[c - 1].answer \in {"y", "yes"}
                 /\ <<created_groups[pol.PolicyName], pol.PolicyArn>> \in group_policies
                 /\ <<created_groups[pol.PolicyName], username>> \in group_members
                 /\ \A b \in 1 .. Len(calls) :
                       (calls[b].op = "detach_user_policy" /\ calls[b].idx = k) => b = c
    /\ \A c \in 1 .. Len(calls) :
          StepFailed(c)
          => /\ \A b \in (c + 1) .. Len(calls) : calls[b].idx > calls[c].idx
             /\ \A b \in 1 .. Len(calls) :
                   calls[b].op = "detach_user_policy" => calls[b].idx # calls[c].idx
             /\ (c < Len(calls)) => calls[c + 1].idx = calls[c].idx + 1
             /\ (c = Len(calls)) => (ipc \in {"loop", "done"} /\ idx = calls[c].idx + 1)
    /\ \A k \in 1 .. Len(attached_policies) :
          (attached_policies[k].PolicyArn \notin user_policies)
          => \E c \in 1 .. Len(calls) :
                /\ calls[c].op = "detach_user_policy"
                /\ calls[c].idx = k
                /\ calls[c].outcome = "ok"
    /\ (ipc = "done")
          => \A k \in 1 .. Len(attached_policies) :
                \E c \in 1 .. Len(calls) :
                   calls[c].idx = k /\ calls[c].op \in {"group", "no group"}

\* The function returned for a user with two policies: the migration of the
\* first failed when the user was added to the group, the second policy was
\* detached after a repeated question.
C26_Witness ==
    /\ ipc = "done"
    /\ Len(attached_policies) = 2
    /\ \E c \in 1 .. Len(calls) :
          /\ calls[c].op = "add_user_to_group"
          /\ calls[c].idx = 1
          /\ calls[c].outcome = "error"
    /\ \E c \in 1 .. Len(calls) :
          /\ calls[c].op = "input"
          /\ calls[c].idx = 2
          /\ calls[c].answer = "maybe"
    /\ \E c \in 1 .. Len(calls) :
          /\ calls[c].op = "detach_user_policy"
          /\ calls[c].idx = 2
          /\ calls[c].outcome = "ok"
    /\ user_policies = { attached_policies[1].PolicyArn }
====
